---------------------------- MODULE Spec2Model ----------------------------
(***************************************************************************)
(* Model of QueryEngine/LoopControlFlow/JoinLoopTest.cpp: the sweep of     *)
(* main() over (mask, cond_mask), the descriptors it generates, the        *)
(* function it emits around JoinLoop::codegen, and the execution of that   *)
(* function block by block.                                                *)
(*                                                                         *)
(* JoinLoop::codegen itself (JoinLoop.h / JoinLoop.cpp) is not part of the *)
(* sources at hand; Continuation, LevelEntry, IteratorsAt, LevelBlocks and *)
(* JoinLoop_codegen follow the description of the composer in spec.md 4.1. *)
(***************************************************************************)
EXTENDS Integers, Sequences, FiniteSets, TLC

VARIABLES
    upper_bounds,   \* main: std::vector<int64_t> upper_bounds
    mask,           \* main: outer loop counter
    cond_mask,      \* main: inner loop counter
    pc,             \* position of main
    module,         \* the unique_ptr<llvm::Module> of the iteration
    join_loops,     \* the descriptors of the iteration
    func,           \* the emitted function: [start, blocks, evalArgs]
    verdict,        \* outcome of verify_function_ir in the iteration
    engine,         \* the llvm::ExecutionEngine of the iteration
    cur,            \* block the native code is executing
    prev,           \* block executed before cur
    iter,           \* run-time iterator value of each level
    captured,       \* tuples print_iterators received in this iteration
    lookups,        \* per level: times the probe was evaluated at run time
    visited,        \* history: the (mask, cond_mask) pairs main has entered
    codegen_calls,  \* history: calls of native_codegen so far
    modules_alive,  \* llvm::Module objects not yet destroyed
    engines_alive,  \* llvm::ExecutionEngine objects not yet destroyed
    logged          \* what the process wrote with its fatal message, if any

vars == <<upper_bounds, mask, cond_mask, pc, module, join_loops, func, verdict,
          engine, cur, prev, iter, captured, lookups, visited,
          codegen_calls, modules_alive, engines_alive, logged>>

---------------------------------------------------------------------------
(* Bounds of the generalised inputs *)
MaxLevels == 3
MaxBound == 1

(* Program constants *)
MatchedValue == 99
NoMatchValue == -1

MainUpperBounds == <<5, 3, 9>>

RECURSIVE Pow2(_)
Pow2(n) == IF n = 0 THEN 1 ELSE 2 * Pow2(n - 1)

\* mask & (1 << i)
BitSet(m, i) == (m \div Pow2(i)) % 2 = 1

\* __builtin_popcount(mask)
RECURSIVE popcount(_)
popcount(m) == IF m = 0 THEN 0 ELSE (m % 2) + popcount(m \div 2)

---------------------------------------------------------------------------
(* Values the code generator handles *)
NullValue == <<"null", 0>>          \* nullptr, the outer_iter argument
IterValue(k) == <<"iter", k>>       \* the llvm::Value of level k's iterator

(* Blocks of the emitted function *)
EntryBB == <<"entry", 0>>
ExitBB == <<"exit", 0>>
BodyBB == <<"loop_body", 0>>
CondBB(k) == <<"cond", k>>
IncrBB(k) == <<"incr", k>>
ProbeBB(k) == <<"probe", k>>
NoBB == <<"none", 0>>

Block(kind, val, t, f, its, args) ==
    [kind |-> kind, val |-> val, t |-> t, f |-> f, iterators |-> its, args |-> args]


---------------------------------------------------------------------------
(* generate_descriptors: the loop over i with its running cond_idx *)
\* cond_is_true ? no match : match
SingletonLoop_swapped(i, cond_is_true) ==
    [kind |-> "Singleton", type |-> "INNER", i |-> i,
     value |-> IF cond_is_true THEN NoMatchValue ELSE MatchedValue,
     name |-> i]

\* the level's index as the lookup result of a match
SingletonLoop_index(i, cond_is_true) ==
    [kind |-> "Singleton", type |-> "INNER", i |-> i,
     value |-> IF cond_is_true THEN i ELSE NoMatchValue,
     name |-> i]

SingletonLoop(i, cond_is_true) ==
    [kind |-> "Singleton", type |-> "INNER", i |-> i,
     value |-> IF cond_is_true THEN MatchedValue ELSE NoMatchValue,
     name |-> i]

\* an upper bound one too large
UpperBoundLoop_off_by_one(i, upper_bound) ==
    [kind |-> "UpperBound", type |-> "INNER", i |-> i,
     value |-> upper_bound + 1,
     name |-> i]

UpperBoundLoop(i, upper_bound) ==
    [kind |-> "UpperBound", type |-> "INNER", i |-> i,
     value |-> upper_bound,
     name |-> i]

RECURSIVE generate_loop(_, _, _, _, _, _)
generate_loop(m, cm, ub, i, cond_idx, jls) ==
    IF ~(i < Len(ub)) THEN jls
    ELSE IF BitSet(m, i)
         THEN generate_loop(m, cm, ub, i + 1, cond_idx + 1,
                            Append(jls, SingletonLoop(i, BitSet(cm, cond_idx))))
         ELSE generate_loop(m, cm, ub, i + 1, cond_idx,
                            Append(jls, UpperBoundLoop(i, ub[i + 1])))

\* cond_mask & (1 << i): the level's index where cond_idx belongs
RECURSIVE generate_loop_level_bit(_, _, _, _, _)
generate_loop_level_bit(m, cm, ub, i, jls) ==
    IF ~(i < Len(ub)) THEN jls
    ELSE IF BitSet(m, i)
         THEN generate_loop_level_bit(m, cm, ub, i + 1,
                                      Append(jls, SingletonLoop(i, BitSet(cm, i))))
         ELSE generate_loop_level_bit(m, cm, ub, i + 1,
                                      Append(jls, UpperBoundLoop(i, ub[i + 1])))

generate_descriptors_level_bit(m, cm, ub) == generate_loop_level_bit(m, cm, ub, 0, <<>>)

\* static size_t cond_idx{0}: cond_idx goes on from the probes of the earlier
\* calls
RECURSIVE ProbesGenerated(_, _)
ProbesGenerated(combinations, n) ==
    IF n = 0 THEN 0
    ELSE popcount(combinations[n][1]) + ProbesGenerated(combinations, n - 1)

generate_descriptors_static_cond_idx(m, cm, ub) ==
    generate_loop(m, cm, ub, 0, ProbesGenerated(visited, Len(visited) - 1), <<>>)

\* ++cond_idx left out
RECURSIVE generate_loop_first_bit(_, _, _, _, _)
generate_loop_first_bit(m, cm, ub, i, jls) ==
    IF ~(i < Len(ub)) THEN jls
    ELSE IF BitSet(m, i)
         THEN generate_loop_first_bit(m, cm, ub, i + 1,
                                      Append(jls, SingletonLoop(i, BitSet(cm, 0))))
         ELSE generate_loop_first_bit(m, cm, ub, i + 1,
                                      Append(jls, UpperBoundLoop(i, ub[i + 1])))

generate_descriptors_first_bit(m, cm, ub) == generate_loop_first_bit(m, cm, ub, 0, <<>>)

generate_descriptors(m, cm, ub) == generate_loop(m, cm, ub, 0, 0, <<>>)

\* CHECK_EQ(i, v.size())
Evaluate_size_is_index(jl, v) ==
    [checked |-> (jl.i = Len(v)) /\ (Len(v) > 0 /\ v[1] = NullValue),
     value |-> jl.value]

\* The iteration-domain lambda of a descriptor, called with the iterators so far:
\* its two CHECKs and the domain value it returns.
Evaluate(jl, v) ==
    [checked |-> (jl.i + 1 = Len(v)) /\ (Len(v) > 0 /\ v[1] = NullValue),
     value |-> jl.value]

---------------------------------------------------------------------------
(* The body callback create_loop_test_function hands to JoinLoop::codegen: a new
   block that calls print_iterators with the iterators but the first. *)
\* args(iterators.begin(), iterators.end()): the sentinel is not dropped
loop_body_all_iterators(iterators) ==
    [bb |-> BodyBB,
     block |-> Block("body", 0, NoBB, NoBB, iterators, iterators)]

loop_body(iterators) ==
    [bb |-> BodyBB,
     block |-> Block("body", 0, NoBB, NoBB, iterators, Tail(iterators))]

---------------------------------------------------------------------------
(* The composer, after spec.md 4.1 *)

\* Where level k goes when it fails (k = Len(jls) + 1: where the body goes when
\* it is done): the increment of the nearest enclosing scan, else exit_bb.
RECURSIVE Continuation(_, _, _)
Continuation(jls, k, exit_bb) ==
    IF k = 1 THEN exit_bb
    ELSE IF jls[k - 1].kind = "UpperBound" THEN IncrBB(k - 1)
    ELSE Continuation(jls, k - 1, exit_bb)

\* First block of level k's structure; past the last level, the body's block.
LevelEntry(jls, k, body_bb) ==
    IF k > Len(jls) THEN body_bb
    ELSE IF jls[k].kind = "UpperBound" THEN CondBB(k) ELSE ProbeBB(k)

\* The iterator vector when level k is built: the sentinel, then one entry per
\* enclosing level.
RECURSIVE IteratorsAt(_, _)
IteratorsAt(k, outer_iter) ==
    IF k = 1 THEN <<outer_iter>>
    ELSE Append(IteratorsAt(k - 1, outer_iter), IterValue(k - 1))

\* The blocks of level k.
LevelBlocks(jls, k, body_bb, outer_iter, exit_bb) ==
    LET domain == Evaluate(jls[k], IteratorsAt(k, outer_iter))
        inner == LevelEntry(jls, k + 1, body_bb)
        cont == Continuation(jls, k, exit_bb)
    IN IF jls[k].kind = "UpperBound"
       THEN (CondBB(k) :> Block("cond", domain.value, inner, cont, <<>>, <<>>))
            @@ (IncrBB(k) :> Block("incr", 0, CondBB(k), CondBB(k), <<>>, <<>>))
       ELSE (ProbeBB(k) :> Block("probe", domain.value, inner, cont, <<>>, <<>>))

RECURSIVE AllLevelBlocks(_, _, _, _, _)
AllLevelBlocks(jls, k, body_bb, outer_iter, exit_bb) ==
    IF k > Len(jls) THEN [b \in {} |-> Block("none", 0, NoBB, NoBB, <<>>, <<>>)]
    ELSE LevelBlocks(jls, k, body_bb, outer_iter, exit_bb)
         @@ AllLevelBlocks(jls, k + 1, body_bb, outer_iter, exit_bb)

\* JoinLoop::codegen(join_loops, body_codegen, outer_iter, exit_bb, builder),
\* with loop_body as body_codegen
JoinLoop_codegen(jls, outer_iter, exit_bb) ==
    LET L == Len(jls)
        body == loop_body(IteratorsAt(L + 1, outer_iter))
        after == Continuation(jls, L + 1, exit_bb)
    IN [entry |-> LevelEntry(jls, 1, body.bb),
        blocks |-> (body.bb :> [body.block EXCEPT !.t = after, !.f = after])
                   @@ AllLevelBlocks(jls, 1, body.bb, outer_iter, exit_bb),
        evalArgs |-> [k \in 1..L |-> IteratorsAt(k, outer_iter)],
        checked |-> \A k \in 1..L : Evaluate(jls[k], IteratorsAt(k, outer_iter)).checked]

---------------------------------------------------------------------------
(* create_loop_test_function and what it calls *)

\* builder.CreateBr(exit_bb)
entry_branch_to_exit(entry_bb, loop_body_bb, exit_bb) == exit_bb

\* builder.CreateBr(entry_bb)
entry_branch_to_entry(entry_bb, loop_body_bb, exit_bb) == entry_bb

\* builder.SetInsertPoint(entry_bb); builder.CreateBr(loop_body_bb): the block
\* entry_bb branches to, of the blocks in scope
entry_branch(entry_bb, loop_body_bb, exit_bb) == loop_body_bb

\* entry_bb handed over as the exit block
codegen_exit_is_entry(entry_bb, exit_bb) == entry_bb

\* The exit block handed to JoinLoop::codegen
codegen_exit(entry_bb, exit_bb) == exit_bb

create_loop_test_function(jls) ==
    LET cg == JoinLoop_codegen(jls, NullValue, codegen_exit(EntryBB, ExitBB))
        target == entry_branch(EntryBB, cg.entry, ExitBB)
    IN [start |-> cg.entry,
        blocks |-> (EntryBB :> Block("entry", 0, target, target, <<>>, <<>>))
                   @@ (ExitBB :> Block("ret", 0, NoBB, NoBB, <<>>, <<>>))
                   @@ cg.blocks,
        evalArgs |-> cg.evalArgs,
        checked |-> cg.checked]

NoFunc ==
    [start |-> NoBB,
     blocks |-> (NoBB :> Block("none", 0, NoBB, NoBB, <<>>, <<>>)),
     evalArgs |-> <<>>,
     checked |-> TRUE]

\* LOG(ERROR) in place of LOG(FATAL)
verify_function_ir_not_fatal(broken) == "ok"

\* if (!llvm::verifyFunction(*func, &err_os))
verify_function_ir_negated(broken) == IF broken THEN "ok" ELSE "fatal"

\* verify_function_ir: LOG(FATAL) when llvm::verifyFunction reports the function
\* broken.
verify_function_ir(broken) == IF broken THEN "fatal" ELSE "ok"


---------------------------------------------------------------------------
(* main *)

Levels == Len(upper_bounds)

\* static_cast<unsigned>(1 << upper_bounds.size())
mask_limit(ub) == Pow2(Len(ub))

\* 1 << mask
cond_mask_limit_of_mask(m) == Pow2(m)

\* static_cast<unsigned>(1 << mask_bitcount)
cond_mask_limit(m) == Pow2(popcount(m))

ZeroIters == [k \in 1..Levels |-> 0]

UpperBoundsSet ==
    {MainUpperBounds} \cup UNION {[1..n -> 0..MaxBound] : n \in 0..MaxLevels}

InitRest ==
    /\ mask = 0
    /\ cond_mask = 0
    /\ pc = "outer"
    /\ module = "none"
    /\ join_loops = <<>>
    /\ func = NoFunc
    /\ verdict = "none"
    /\ engine = "none"
    /\ cur = NoBB
    /\ prev = NoBB
    /\ iter = ZeroIters
    /\ captured = <<>>
    /\ lookups = ZeroIters
    /\ visited = <<>>
    /\ codegen_calls = 0
    /\ modules_alive = 0
    /\ engines_alive = 0
    /\ logged = {}

\* main as written: upper_bounds{5, 3, 9}
Init ==
    /\ upper_bounds = MainUpperBounds
    /\ InitRest

\* main over any short vector of small upper bounds
InitAny ==
    /\ upper_bounds \in UpperBoundsSet
    /\ InitRest

Execution == <<cur, prev, iter, captured, lookups>>
Iteration == <<module, join_loops, func, verdict, engine>>
Resources == <<codegen_calls, modules_alive, engines_alive, logged>>

\* a unique_ptr that goes out of scope without deleting what it owns
release_leaked(n) == n

\* A unique_ptr goes out of scope and deletes what it owns, of n objects alive.
release(n) == n - 1

\* the descriptors are consumed by the call
descriptors_after_codegen_moved(jls) == <<>>

\* create_loop_test_function takes the descriptors by const reference: what
\* the caller's vector holds after the call.
descriptors_after_codegen(jls) == jls

\* verify_function_ir on a broken function: func->dump(), then
\* LOG(FATAL) << err_ss.str()
verifier_diagnostic == {"func", "err_ss"}

\* a CHECK that fails logs the condition
check_diagnostic == {"check"}

\* How the process ended: return 0 of main, or the abort of LOG(FATAL) / CHECK
exit_status ==
    CASE pc = "done" -> "zero"
      [] pc = "aborted" -> "abort"
      [] OTHER -> "running"

\* for (unsigned mask = 0; mask < (1 << upper_bounds.size()); ...): the test, and
\* return 0 when it fails
OuterTest ==
    /\ pc = "outer"
    /\ IF mask < mask_limit(upper_bounds)
       THEN /\ cond_mask' = 0
            /\ pc' = "inner"
       ELSE /\ pc' = "done"
            /\ UNCHANGED cond_mask
    /\ UNCHANGED <<upper_bounds, mask, visited>>
    /\ UNCHANGED Iteration
    /\ UNCHANGED Execution
    /\ UNCHANGED Resources

\* for (unsigned cond_mask = 0; cond_mask < (1 << mask_bitcount); ...): the test,
\* and ++mask when it fails
InnerTest ==
    /\ pc = "inner"
    /\ IF cond_mask < cond_mask_limit(mask)
       THEN /\ pc' = "create_module"
            /\ visited' = Append(visited, <<mask, cond_mask>>)
            /\ UNCHANGED mask
       ELSE /\ mask' = mask + 1
            /\ pc' = "outer"
            /\ UNCHANGED visited
    /\ UNCHANGED <<upper_bounds, cond_mask>>
    /\ UNCHANGED Iteration
    /\ UNCHANGED Execution
    /\ UNCHANGED Resources

\* auto module = create_loop_test_module()
CreateModule ==
    /\ pc = "create_module"
    /\ module' = "owned_by_main"
    /\ modules_alive' = modules_alive + 1
    /\ pc' = "generate"
    /\ UNCHANGED <<upper_bounds, mask, cond_mask, visited, join_loops, func, verdict, engine>>
    /\ UNCHANGED <<codegen_calls, engines_alive, logged>>
    /\ UNCHANGED Execution

\* const auto join_loops = generate_descriptors(mask, cond_mask, upper_bounds)
GenerateDescriptors ==
    /\ pc = "generate"
    /\ join_loops' = generate_descriptors(mask, cond_mask, upper_bounds)
    /\ pc' = "create_function"
    /\ UNCHANGED <<upper_bounds, mask, cond_mask, visited, module, func, verdict, engine>>
    /\ UNCHANGED Execution
    /\ UNCHANGED Resources

\* create_loop_test_function(...): emits the function and verifies it. A failed
\* CHECK in a descriptor's lambda, or LOG(FATAL) in verify_function_ir, ends the
\* process. What llvm::verifyFunction answers is an input.
CreateLoopTestFunction ==
    /\ pc = "create_function"
    /\ LET f == create_loop_test_function(join_loops)
       IN /\ func' = f
          /\ IF ~f.checked
             THEN /\ pc' = "aborted"
                  /\ logged' = check_diagnostic
                  /\ UNCHANGED verdict
             ELSE \E broken \in BOOLEAN :
                     /\ verdict' = IF broken THEN "broken" ELSE "verified"
                     /\ pc' = IF verify_function_ir(broken) = "fatal"
                              THEN "aborted" ELSE "native_codegen"
                     /\ logged' = IF verify_function_ir(broken) = "fatal"
                                  THEN verifier_diagnostic ELSE logged
    /\ join_loops' = descriptors_after_codegen(join_loops)
    /\ UNCHANGED <<upper_bounds, mask, cond_mask, visited, module, engine>>
    /\ UNCHANGED <<codegen_calls, modules_alive, engines_alive>>
    /\ UNCHANGED Execution

\* native_codegen(module, function): the module moves into the engine; a failed
\* CHECK (no engine, no native code) ends the process.
NativeCodegen ==
    /\ pc = "native_codegen"
    /\ \E created \in BOOLEAN :
          IF created
          THEN /\ module' = "owned_by_engine"
               /\ engine' = "alive"
               /\ engines_alive' = engines_alive + 1
               /\ pc' = "call"
               /\ UNCHANGED logged
          ELSE /\ module' = "owned_by_engine"
               /\ pc' = "aborted"
               /\ logged' = check_diagnostic
               /\ UNCHANGED <<engine, engines_alive>>
    /\ codegen_calls' = codegen_calls + 1
    /\ UNCHANGED modules_alive
    /\ UNCHANGED <<upper_bounds, mask, cond_mask, visited, join_loops, func, verdict>>
    /\ UNCHANGED Execution

\* reinterpret_cast<int64_t (*)()>(func_and_ee.first)(): control enters the
\* function's entry block
Call ==
    /\ pc = "call"
    /\ pc' = "exec"
    /\ cur' = EntryBB
    /\ prev' = NoBB
    /\ UNCHANGED <<upper_bounds, mask, cond_mask, visited, iter, captured, lookups>>
    /\ UNCHANGED Iteration
    /\ UNCHANGED Resources

---------------------------------------------------------------------------
(* Execution of the emitted function, one block per step *)

Frame == <<upper_bounds, mask, cond_mask, visited>>

\* Control moves from cur to block b. A scan's counter is 0 when its condition
\* block is entered from outside the loop.
Goto(b, it) ==
    /\ cur' = b
    /\ prev' = cur
    /\ iter' = IF b[1] = "cond" /\ cur # IncrBB(b[2])
               THEN [it EXCEPT ![b[2]] = 0]
               ELSE it

ValueOf(v) == IF v[1] = "iter" THEN iter[v[2]] ELSE 0

StepEntry ==
    /\ pc = "exec"
    /\ func.blocks[cur].kind = "entry"
    /\ Goto(func.blocks[cur].t, iter)
    /\ UNCHANGED <<pc, captured, lookups>>
    /\ UNCHANGED Frame
    /\ UNCHANGED Iteration
    /\ UNCHANGED Resources

\* counter < upper bound: into the inner structure; else to the continuation
StepCond ==
    /\ pc = "exec"
    /\ func.blocks[cur].kind = "cond"
    /\ LET b == func.blocks[cur]
       IN IF iter[cur[2]] < b.val THEN Goto(b.t, iter) ELSE Goto(b.f, iter)
    /\ UNCHANGED <<pc, captured, lookups>>
    /\ UNCHANGED Frame
    /\ UNCHANGED Iteration
    /\ UNCHANGED Resources

\* ++counter, back to the condition block
StepIncr ==
    /\ pc = "exec"
    /\ func.blocks[cur].kind = "incr"
    /\ Goto(func.blocks[cur].t, [iter EXCEPT ![cur[2]] = @ + 1])
    /\ UNCHANGED <<pc, captured, lookups>>
    /\ UNCHANGED Frame
    /\ UNCHANGED Iteration
    /\ UNCHANGED Resources

\* the lookup result is the level's iterator when it is a match; else to the
\* continuation
StepProbe ==
    /\ pc = "exec"
    /\ func.blocks[cur].kind = "probe"
    /\ LET b == func.blocks[cur]
       IN IF b.val # NoMatchValue
          THEN Goto(b.t, [iter EXCEPT ![cur[2]] = b.val])
          ELSE Goto(b.f, iter)
    /\ lookups' = [lookups EXCEPT ![cur[2]] = @ + 1]
    /\ UNCHANGED <<pc, captured>>
    /\ UNCHANGED Frame
    /\ UNCHANGED Iteration
    /\ UNCHANGED Resources

\* call print_iterators(args...)
StepBody ==
    /\ pc = "exec"
    /\ func.blocks[cur].kind = "body"
    /\ LET b == func.blocks[cur]
       IN /\ captured' = Append(captured, [j \in 1..Len(b.args) |-> ValueOf(b.args[j])])
          /\ Goto(b.t, iter)
    /\ UNCHANGED <<pc, lookups>>
    /\ UNCHANGED Frame
    /\ UNCHANGED Iteration
    /\ UNCHANGED Resources

\* ret void: back in main
StepExit ==
    /\ pc = "exec"
    /\ func.blocks[cur].kind = "ret"
    /\ pc' = "end_iter"
    /\ UNCHANGED Execution
    /\ UNCHANGED Frame
    /\ UNCHANGED Iteration
    /\ UNCHANGED Resources

\* End of the inner loop's body: func_and_ee, join_loops and module go out of
\* scope; ++cond_mask.
EndIteration ==
    /\ pc = "end_iter"
    /\ engine' = "none"
    /\ engines_alive' = release(engines_alive)
    /\ module' = "none"
    /\ modules_alive' = release(modules_alive)
    /\ func' = NoFunc
    /\ join_loops' = <<>>
    /\ verdict' = "none"
    /\ cur' = NoBB
    /\ prev' = NoBB
    /\ iter' = ZeroIters
    /\ lookups' = ZeroIters
    /\ captured' = <<>>
    /\ cond_mask' = cond_mask + 1
    /\ pc' = "inner"
    /\ UNCHANGED <<upper_bounds, mask, visited, codegen_calls, logged>>

Next ==
    \/ OuterTest
    \/ InnerTest
    \/ CreateModule
    \/ GenerateDescriptors
    \/ CreateLoopTestFunction
    \/ NativeCodegen
    \/ Call
    \/ StepEntry
    \/ StepCond
    \/ StepIncr
    \/ StepProbe
    \/ StepBody
    \/ StepExit
    \/ EndIteration

Spec == Init /\ [][Next]_vars

SpecAny == InitAny /\ [][Next]_vars

\* The process is scheduled until it ends: some step is taken while one is possible.
FairSpecAny == InitAny /\ [][Next]_vars /\ WF_vars(Next)


---------------------------------------------------------------------------
(* Reference values the claims compare the execution with *)

NLoops == Len(join_loops)
Emitted == func.start # NoBB
Running == pc \in {"exec", "end_iter"}
Returned == pc = "end_iter"

AllOfKind(kind) == \A k \in 1..NLoops : join_loops[k].kind = kind

\* b[k] * ... * b[Len(b)]
RECURSIVE ProductFrom(_, _)
ProductFrom(b, k) == IF k > Len(b) THEN 1 ELSE b[k] * ProductFrom(b, k + 1)

\* The n-th tuple (from 1) of [0,b_1) x ... x [0,b_L) in lexicographic order
LexTuple(b, n) == [k \in 1..Len(b) |-> ((n - 1) \div ProductFrom(b, k + 1)) % b[k]]

DescriptorBounds == [k \in 1..NLoops |-> join_loops[k].value]

\* What a level multiplies the number of body invocations by
Multiplier(jl) ==
    IF jl.kind = "UpperBound" THEN jl.value
    ELSE IF jl.value = NoMatchValue THEN 0 ELSE 1

Multipliers == [k \in 1..NLoops |-> Multiplier(join_loops[k])]

\* The same from the configuration: the bit of cond_mask of a probe level is the
\* number of probe levels before it.
ConfiguredMultipliers ==
    [k \in 1..Levels |->
        IF BitSet(mask, k - 1)
        THEN (IF BitSet(cond_mask, Cardinality({j \in 1..(k - 1) : BitSet(mask, j - 1)}))
              THEN 1 ELSE 0)
        ELSE upper_bounds[k]]

---------------------------------------------------------------------------
\* C1: with only BoundedScan levels of bounds b_1..b_L, the body is invoked once
\* per element of [0,b_1) x ... x [0,b_L), in lexicographic order with the
\* outermost level most significant, b_1*...*b_L times in all; 135 times for
\* the bounds 5, 3, 9.
C1_FullCartesianLexOrder ==
    (Running /\ AllOfKind("UpperBound")) =>
        /\ DescriptorBounds = upper_bounds
        /\ Len(captured) <= ProductFrom(DescriptorBounds, 1)
        /\ \A n \in 1..Len(captured) : captured[n] = LexTuple(DescriptorBounds, n)
        /\ Returned => Len(captured) = ProductFrom(DescriptorBounds, 1)
        /\ (Returned /\ upper_bounds = <<5, 3, 9>>) => Len(captured) = 135

C1_Witness ==
    /\ Returned
    /\ NLoops = 3
    /\ AllOfKind("UpperBound")
    /\ Len(captured) = 135
    /\ captured[135] = <<4, 2, 8>>

\* C2: the number of body invocations of a nest is the product of the levels'
\* multipliers: the bound of a scan, 1 for a matched probe, 0 for an unmatched
\* one; an inner scan that is exhausted lets the enclosing scan go on.
C2_InvocationCountIsProduct ==
    /\ Running => Len(captured) <= ProductFrom(Multipliers, 1)
    /\ Returned => /\ Len(captured) = ProductFrom(Multipliers, 1)
                   /\ Len(captured) = ProductFrom(ConfiguredMultipliers, 1)

\* a matched probe between two scans, the inner scan exhausted more than once
C2_Witness ==
    /\ Returned
    /\ NLoops = 3
    /\ join_loops[1].kind = "UpperBound"
    /\ join_loops[2].kind = "Singleton"
    /\ join_loops[3].kind = "UpperBound"
    /\ Len(captured) = 45
    /\ Len(captured) = ProductFrom(Multipliers, 1)

\* C3: with only SingleProbe levels, one of them without a match, the body is
\* never invoked, wherever the unmatched level is.
C3_NoMatchSkipsBody ==
    (/\ Running
     /\ NLoops > 0
     /\ AllOfKind("Singleton")
     /\ \/ \E k \in 1..NLoops : join_loops[k].value = NoMatchValue
        \/ cond_mask # cond_mask_limit(mask) - 1)
    => captured = <<>>

\* all matched but the innermost level
C3_Witness ==
    /\ Returned
    /\ NLoops = 3
    /\ AllOfKind("Singleton")
    /\ join_loops[1].value # NoMatchValue
    /\ join_loops[2].value # NoMatchValue
    /\ join_loops[3].value = NoMatchValue
    /\ lookups = <<1, 1, 1>>
    /\ captured = <<>>

\* C4: the iterator vector the body is given has one entry more than there are
\* levels: the null sentinel, then the iterators of the levels in nesting order;
\* print_iterators receives the entries after the sentinel, which at run time
\* are the current iterator values of the levels.
C4_BodyIterators ==
    /\ Emitted =>
          LET b == func.blocks[BodyBB]
          IN /\ Len(b.iterators) = NLoops + 1
             /\ b.iterators[1] = NullValue
             /\ \A k \in 1..NLoops : b.iterators[k + 1] = IterValue(k)
             /\ Len(b.args) = NLoops
             /\ \A k \in 1..NLoops : b.args[k] = b.iterators[k + 1]
    /\ (pc = "exec" /\ prev = BodyBB) =>
          /\ Len(captured) > 0
          /\ Len(captured[Len(captured)]) = NLoops
          /\ \A k \in 1..NLoops :
                /\ captured[Len(captured)][k] = iter[k]
                /\ join_loops[k].kind = "UpperBound" =>
                      iter[k] \in 0..(join_loops[k].value - 1)
                /\ join_loops[k].kind = "Singleton" => iter[k] = MatchedValue

C4_Witness ==
    /\ pc = "exec"
    /\ prev = BodyBB
    /\ NLoops = 3
    /\ join_loops[2].kind = "Singleton"
    /\ Len(func.blocks[BodyBB].iterators) = 4
    /\ captured[Len(captured)] = <<4, 99, 8>>

\* C5: for no descriptors at all the composer allocates no condition, increment
\* or probe block and returns the block the body callback returned; the body is
\* invoked once, with the iterator vector <<sentinel>>.
C5_EmptySequence ==
    (NLoops = 0 /\ Levels = 0) =>
        /\ Emitted =>
              /\ func.start = BodyBB
              /\ func.blocks[EntryBB].t = BodyBB
              /\ DOMAIN func.blocks = {EntryBB, ExitBB, BodyBB}
              /\ func.blocks[BodyBB].iterators = <<NullValue>>
              /\ func.blocks[BodyBB].t = ExitBB
        /\ Running => Len(captured) <= 1
        /\ Returned => (Len(captured) = 1 /\ Len(captured[1]) = 0)

C5_Witness ==
    /\ Levels = 0
    /\ Returned
    /\ prev = BodyBB
    /\ cur = ExitBB
    /\ Len(captured) = 1


\* C6: once the emitted function is entered, control reaches the exit block,
\* whatever the bounds of the scans and the outcomes of the probes.
C6_ReachesExit == (pc = "exec") ~> (pc = "exec" /\ cur = ExitBB)

\* the outermost scan exhausted after the last body invocation
C6_Witness ==
    /\ pc = "exec"
    /\ cur = ExitBB
    /\ prev = CondBB(1)
    /\ NLoops = 3
    /\ Len(captured) > 0

\* Number of times level k's structure is entered in one execution
Contexts(k) == ProductFrom([j \in 1..(k - 1) |-> Multipliers[j]], 1)

ProbeLevels == {k \in 1..NLoops : join_loops[k].kind = "Singleton"}

\* C7: a SingleProbe level has no loop: its block is entered from the enclosing
\* level only and its lookup is evaluated once per outer context; its match is
\* the level's iterator in every body invocation. With bounds 5, 3, 9 and level 0
\* a probe, the body is invoked 27 times with 99 at level 0 when the probe
\* matches, and never when it does not.
C7_ProbeNeverLoops ==
    /\ Emitted =>
          \A k \in ProbeLevels :
              /\ ProbeBB(k) \in DOMAIN func.blocks
              /\ CondBB(k) \notin DOMAIN func.blocks
              /\ IncrBB(k) \notin DOMAIN func.blocks
              /\ \A b \in DOMAIN func.blocks :
                    (func.blocks[b].t = ProbeBB(k) \/ func.blocks[b].f = ProbeBB(k)) =>
                        IF k = 1 THEN b = EntryBB
                        ELSE b \in {CondBB(k - 1), ProbeBB(k - 1)}
    /\ Running =>
          \A k \in ProbeLevels :
              /\ lookups[k] <= Contexts(k)
              /\ Returned => lookups[k] = Contexts(k)
              /\ \A n \in 1..Len(captured) : captured[n][k] = 99
    /\ (Returned /\ upper_bounds = <<5, 3, 9>> /\ mask = 1) =>
          /\ lookups[1] = 1
          /\ Len(captured) = IF cond_mask = 1 THEN 27 ELSE 0

C7_Witness ==
    /\ Returned
    /\ upper_bounds = <<5, 3, 9>>
    /\ mask = 1
    /\ cond_mask = 1
    /\ lookups = <<1, 0, 0>>
    /\ Len(captured) = 27
    /\ captured[27] = <<99, 2, 8>>


---------------------------------------------------------------------------
(* The sweep *)

RECURSIVE Pow3(_)
Pow3(n) == IF n = 0 THEN 1 ELSE 3 * Pow3(n - 1)

\* Number of levels mask makes probes
ProbeCount(m) == Cardinality({i \in 0..(Levels - 1) : BitSet(m, i)})

Combinations ==
    {<<m, c>> : m \in 0..(Pow2(Levels) - 1), c \in 0..(Pow2(Levels) - 1)}

InSweep(p) ==
    /\ p \in Combinations
    /\ p[2] < Pow2(ProbeCount(p[1]))

\* The combination after p: the next cond_mask of the mask, else the next mask
NextCombination(p) ==
    IF p[2] + 1 < Pow2(ProbeCount(p[1])) THEN <<p[1], p[2] + 1>> ELSE <<p[1] + 1, 0>>

\* C8: main enters the pairs (mask, cond_mask), 0 <= mask < 2^L and
\* 0 <= cond_mask < 2^popcount(mask), one after the other in ascending order of
\* mask and, for one mask, of cond_mask, each once, and returns after the last:
\* 3^L pairs, 27 for L = 3.
C8_SweepOrder ==
    /\ \A n \in 1..Len(visited) : InSweep(visited[n])
    /\ Len(visited) > 0 => visited[1] = <<0, 0>>
    /\ \A n \in 1..(Len(visited) - 1) : visited[n + 1] = NextCombination(visited[n])
    /\ pc \notin {"outer", "inner", "done"} =>
          (Len(visited) > 0 /\ visited[Len(visited)] = <<mask, cond_mask>>)
    /\ pc = "done" =>
          /\ Len(visited) = Cardinality({p \in Combinations : InSweep(p)})
          /\ Len(visited) = Pow3(Levels)
          /\ Levels = 3 => Len(visited) = 27

C8_Witness ==
    /\ pc = "done"
    /\ Levels = 3
    /\ Len(visited) = 27
    /\ visited[27] = <<7, 7>>

\* C9 as claimed: a function that fails verification ends its own iteration
\* only, and the sweep goes on with the next combination.
C9_SweepGoesOnAfterFailedVerification ==
    verdict = "broken" => pc # "aborted"

\* C9: a function that fails verification ends the process (LOG(FATAL)): main
\* takes no further step, so no later combination is entered, and the function
\* is neither compiled nor executed.
C9_FailedVerificationEndsProcess ==
    verdict = "broken" =>
        /\ pc = "aborted"
        /\ ~ENABLED Next
        /\ visited[Len(visited)] = <<mask, cond_mask>>
        /\ engine = "none"
        /\ cur = NoBB

\* verification fails while combinations are left
C9_Witness ==
    /\ verdict = "broken"
    /\ pc = "aborted"
    /\ Len(visited) = 5
    /\ Len(visited) < Pow3(Levels)

\* C10: the function is verified before native_codegen gets it; a function that
\* fails verification is never compiled and never executed.
C10_VerifiedBeforeCodegen ==
    /\ pc \in {"native_codegen", "call", "exec", "end_iter"} => verdict = "verified"
    /\ (module = "owned_by_engine" \/ engine = "alive" \/ cur # NoBB) =>
          verdict = "verified"
    /\ verdict = "broken" =>
          /\ module = "owned_by_main"
          /\ engine = "none"
          /\ cur = NoBB
          /\ captured = <<>>

C10_Witness ==
    /\ verdict = "broken"
    /\ Emitted
    /\ module = "owned_by_main"
    /\ engine = "none"
    /\ mask = 7


---------------------------------------------------------------------------
\* C11: the process exits with 0 only after a full sweep, and a verification
\* failure ends it with a non-zero exit and a fatal diagnostic that identifies
\* the failing (mask, cond_mask) pair.
C11_ExitCodeAndDiagnostic ==
    /\ exit_status = "zero" =>
          /\ Len(visited) = Pow3(Levels)
          /\ codegen_calls = Len(visited)
    /\ verdict = "broken" =>
          /\ exit_status = "abort"
          /\ {"mask", "cond_mask"} \subseteq logged

\* C12: native_codegen is called once in each combination's iteration, and the
\* module and the engine of a combination are destroyed before the next one
\* begins: never more than one module and one engine are alive.
C12_OneModuleOneEngine ==
    /\ modules_alive <= 1
    /\ engines_alive <= 1
    /\ pc \in {"outer", "inner", "create_module", "done"} =>
          (modules_alive = 0 /\ engines_alive = 0)
    /\ pc \in {"generate", "create_function", "native_codegen"} =>
          (modules_alive = 1 /\ engines_alive = 0)
    /\ pc \in {"call", "exec", "end_iter"} =>
          (modules_alive = 1 /\ engines_alive = 1 /\ module = "owned_by_engine")
    /\ pc \in {"create_module", "generate", "create_function", "native_codegen"} =>
          codegen_calls = Len(visited) - 1
    /\ pc \in {"call", "exec", "end_iter", "outer", "inner", "done"} =>
          codegen_calls = Len(visited)
    /\ pc = "aborted" => codegen_calls \in {Len(visited) - 1, Len(visited)}

\* the second combination has its engine, the first one's is gone
C12_Witness ==
    /\ pc = "exec"
    /\ visited = <<<<0, 0>>, <<1, 0>>>>
    /\ codegen_calls = 2
    /\ modules_alive = 1
    /\ engines_alive = 1

\* The continuation of level k: the increment of the nearest scan around it,
\* the exit block when there is none
EnclosingScans(k) == {j \in 1..(k - 1) : join_loops[j].kind = "UpperBound"}

NearestEnclosingScan(k) ==
    CHOOSE j \in EnclosingScans(k) : \A i \in EnclosingScans(k) : i <= j

ExpectedContinuation(k) ==
    IF EnclosingScans(k) = {} THEN ExitBB ELSE IncrBB(NearestEnclosingScan(k))

LevelFails ==
    /\ pc = "exec"
    /\ \/ cur[1] = "cond" /\ ~(iter[cur[2]] < join_loops[cur[2]].value)
       \/ cur[1] = "probe" /\ join_loops[cur[2]].value = NoMatchValue

\* C13: a level that fails (a scan at its bound, a probe without a match) hands
\* control to the increment of the nearest enclosing scan, past the probes in
\* between, which are not evaluated again; to the exit block when no scan
\* encloses it.
C13_ContinuationsChainOutward ==
    [][LevelFails =>
          /\ cur' = ExpectedContinuation(cur[2])
          /\ \A j \in 1..(cur[2] - 1) : lookups'[j] = lookups[j]
          /\ captured' = captured]_vars

\* the innermost scan is exhausted inside a probe inside a scan
C13_Witness ==
    /\ pc = "exec"
    /\ NLoops = 3
    /\ join_loops[1].kind = "UpperBound"
    /\ join_loops[2].kind = "Singleton"
    /\ prev = CondBB(3)
    /\ cur = IncrBB(1)
    /\ lookups[2] = 1


\* C14: the lambda of the descriptor of level i (from 0) is called with i + 1
\* iterators, the first of them null, one more than the level before: neither
\* CHECK_EQ(i + 1, v.size()) nor CHECK(!v.front()) fails.
C14_EvaluateArguments ==
    /\ Emitted =>
          /\ func.checked
          /\ Len(func.evalArgs) = NLoops
          /\ \A k \in 1..NLoops :
                /\ Len(func.evalArgs[k]) = join_loops[k].i + 1
                /\ Len(func.evalArgs[k]) = k
                /\ func.evalArgs[k][1] = NullValue
                /\ k > 1 => func.evalArgs[k] = Append(func.evalArgs[k - 1], IterValue(k - 1))
    /\ (pc = "aborted" /\ module = "owned_by_main") =>
          (verdict = "broken" /\ logged # check_diagnostic)

C14_Witness ==
    /\ pc = "native_codegen"
    /\ NLoops = 3
    /\ join_loops[2].kind = "Singleton"
    /\ func.evalArgs[3] = <<NullValue, IterValue(1), IterValue(2)>>
    /\ func.checked

Generated ==
    pc \in {"create_function", "native_codegen", "call", "exec", "end_iter", "aborted"}

\* Number of probe levels before level k (from 1)
ProbesBefore(m, k) == Cardinality({j \in 1..(k - 1) : BitSet(m, j - 1)})

\* The match / no-match choices cond_mask c makes for the probe levels of mask m
Assignment(m, c, ub) ==
    LET jls == generate_descriptors(m, c, ub)
    IN [k \in {j \in 1..Len(ub) : BitSet(m, j - 1)} |-> jls[k].value = MatchedValue]

\* C15: generate_descriptors returns one descriptor per upper bound, in order:
\* level i is a probe iff bit i of mask is set, else a scan of upper_bounds[i];
\* the k-th probe in level order matches with 99 iff bit k of cond_mask is set
\* and returns -1 otherwise; so the cond_masks below 2^popcount(mask) and the
\* match / no-match assignments of the probes correspond one to one.
C15_GenerateDescriptors ==
    Generated =>
        /\ Len(join_loops) = Len(upper_bounds)
        /\ \A k \in 1..Levels :
              /\ join_loops[k].name = k - 1
              /\ join_loops[k].type = "INNER"
              /\ (join_loops[k].kind = "Singleton") <=> BitSet(mask, k - 1)
              /\ (join_loops[k].kind = "UpperBound") <=> ~BitSet(mask, k - 1)
              /\ ~BitSet(mask, k - 1) => join_loops[k].value = upper_bounds[k]
              /\ BitSet(mask, k - 1) =>
                    join_loops[k].value =
                        IF BitSet(cond_mask, ProbesBefore(mask, k)) THEN 99 ELSE -1
        /\ LET conds == 0..(Pow2(ProbeCount(mask)) - 1)
           IN /\ \A c1, c2 \in conds :
                    c1 # c2 => Assignment(mask, c1, upper_bounds) # Assignment(mask, c2, upper_bounds)
              /\ Cardinality({Assignment(mask, c, upper_bounds) : c \in conds})
                    = Cardinality([{j \in 1..Levels : BitSet(mask, j - 1)} -> BOOLEAN])

\* probes at levels 0 and 2: bit 1 of cond_mask decides level 2
C15_Witness ==
    /\ pc = "create_function"
    /\ mask = 5
    /\ cond_mask = 2
    /\ NLoops = 3
    /\ join_loops[1].value = -1
    /\ join_loops[2].kind = "UpperBound"
    /\ join_loops[3].value = 99

ScanStep(k) == pc = "exec" /\ join_loops[k].kind = "UpperBound"

\* C16: the counter of a scan is 0 when the scan is entered from outside, grows
\* by one each time the inner structure is done, and the inner structure is
\* entered for the values below the upper bound only, in ascending order; with an
\* upper bound of 0 control goes from the condition straight to the continuation.
C16_ScanCounter ==
    /\ [](pc = "exec" =>
            \A k \in 1..NLoops :
                /\ cur = CondBB(k) => iter[k] \in 0..upper_bounds[k]
                /\ cur = IncrBB(k) =>
                      /\ iter[k] \in 0..(upper_bounds[k] - 1)
                      /\ prev = BodyBB \/ (prev[1] \in {"cond", "probe"} /\ prev[2] > k))
    /\ [][\A k \in 1..NLoops :
            /\ (pc = "exec" /\ pc' = "exec" /\ cur' = CondBB(k) /\ cur # IncrBB(k)) =>
                  iter'[k] = 0
            /\ (pc = "exec" /\ cur = IncrBB(k)) =>
                  (cur' = CondBB(k) /\ iter'[k] = iter[k] + 1)
            /\ (pc = "exec" /\ cur = CondBB(k)) =>
                  /\ iter'[k] = iter[k]
                  /\ captured' = captured
                  /\ IF iter[k] < upper_bounds[k]
                     THEN cur' = (IF k = NLoops THEN BodyBB
                                  ELSE IF join_loops[k + 1].kind = "UpperBound"
                                       THEN CondBB(k + 1) ELSE ProbeBB(k + 1))
                     ELSE cur' = ExpectedContinuation(k)]_vars

\* an inner scan with upper bound 0 inside a scan: back to the outer increment
C16_Witness ==
    /\ pc = "exec"
    /\ NLoops = 3
    /\ upper_bounds[2] = 0
    /\ upper_bounds[1] = 1
    /\ prev = CondBB(2)
    /\ cur = IncrBB(1)
    /\ iter[2] = 0
    /\ captured = <<>>


\* The tuple sequence of a combination, from (mask, cond_mask, upper_bounds)
\* alone: the lexicographic product of the levels' values, 0..bound-1 for a
\* scan, 99 for a matched probe, nothing for an unmatched one.
ReferenceMultipliers(m, c, ub) ==
    [k \in 1..Len(ub) |->
        IF BitSet(m, k - 1)
        THEN (IF BitSet(c, ProbesBefore(m, k)) THEN 1 ELSE 0)
        ELSE ub[k]]

ReferenceLength(m, c, ub) == ProductFrom(ReferenceMultipliers(m, c, ub), 1)

ReferenceTuple(m, c, ub, n) ==
    LET mult == ReferenceMultipliers(m, c, ub)
    IN [k \in 1..Len(ub) |->
           IF BitSet(m, k - 1) THEN 99
           ELSE ((n - 1) \div ProductFrom(mult, k + 1)) % mult[k]]

BetweenIterations == pc \in {"outer", "inner", "create_module"}

C18_DescriptorsNotMutated ==
    [][pc = "create_function" =>
          /\ join_loops' = join_loops
          /\ Len(join_loops') = Len(join_loops)
          /\ \A k \in 1..Len(join_loops) :
                /\ join_loops'[k].kind = join_loops[k].kind
                /\ join_loops'[k].type = join_loops[k].type
                /\ join_loops'[k].value = join_loops[k].value
                /\ join_loops'[k].i = join_loops[k].i
                /\ join_loops'[k].name = join_loops[k].name]_vars

C18_Witness ==
    /\ pc = "native_codegen"
    /\ Emitted
    /\ mask = 5
    /\ cond_mask = 1
    /\ Len(join_loops) = 3
    /\ join_loops = generate_descriptors(5, 1, upper_bounds)

===========================================================================
